---- MODULE Spec2Model ----
(***************************************************************************)
(* SaturnSwap connector of SAIB-Inc/dexter: the swap arithmetic, the order *)
(* placement payload and the order cancellation payload of class           *)
(* SaturnSwap.  src/src/dex/saturnswap.ts holds two definitions of the     *)
(* class: the first (lines 27-243) prices swaps with the constant-product  *)
(* formulas, the second (lines 328-558) is the limit-order variant.        *)
(* classDef says which of the two the called object is an instance of.     *)
(***************************************************************************)
EXTENDS Integers, Sequences, FiniteSets, TLC

VARIABLES
    classDef,        \* 1: first definition of SaturnSwap, 2: second definition
    pc,              \* "idle": no call in progress; "called": a call was made
    op,              \* the method called last
    liquidityPool,   \* argument liquidityPool of the call
    swapToken,       \* argument swapInToken / swapOutToken
    swapAmount,      \* argument swapInAmount / swapOutAmount
    swapParameters,  \* the caller's DatumParameters object (buildSwapOrder)
    spendUtxos,      \* the caller's SpendUTxO list (buildSwapOrder)
    txOutputs,       \* the caller's UTxO list (buildCancelSwapOrder)
    returnAddress,   \* the caller's return address (buildCancelSwapOrder)
    result,          \* how the call ended
    payments,        \* the PayToAddress list a build call resolved with
    feeSchedule,     \* the list this.swapOrderFees() returns for the called object
    placed,          \* the order outputs on chain: the payments submitted so far
    loadedDefinition, \* the definition loaded into the DefinitionBuilder of the call
    datumParameters, \* the DatumParameters given to pushParameters
    datumValue,      \* the datum pushParameters produced / the datum given to decode
    pulled,          \* the DatumParameters pullParameters returned
    decoded,         \* the object a decode function returned
    schemas,         \* the definition objects of the modules order and pool
    builders,        \* the DefinitionBuilder objects of the calls in progress
    calls            \* the concurrent calls: position, arguments and outcome of each

\* The arguments and outcomes of the codec calls.
codec == <<loadedDefinition, datumParameters, datumValue, pulled, decoded>>
\* The state of the calls that run concurrently.
shared == <<schemas, builders, calls>>

vars == <<classDef, pc, op, liquidityPool, swapToken, swapAmount, swapParameters,
          spendUtxos, txOutputs, returnAddress, result, payments, feeSchedule,
          placed, loadedDefinition, datumParameters, datumValue, pulled, decoded,
          schemas, builders, calls>>

(***************************************************************************)
(* Bounds of the model.                                                    *)
(***************************************************************************)
MaxReserve == 3
MaxAmount == 4
\* Largest reserveOut * swapInAmount * swapOutDenominator for which the
\* products of priceImpactPercent are evaluated (they are BigInt in the
\* code; the bound keeps them inside the model checker's integers).
MaxImpactTerm == 200000

(***************************************************************************)
(* Numbers.                                                                *)
(***************************************************************************)
Abs(x) == IF x < 0 THEN -x ELSE x

\* BigInt division: the quotient is truncated toward zero.
TruncDiv(a, b) ==
    IF (a >= 0) = (b > 0)
    THEN Abs(a) \div Abs(b)
    ELSE -(Abs(a) \div Abs(b))

\* Math.round on an exact non-negative value given in tenths: halves round up.
\* poolFeePercent is kept in thousandths of a percent, so
\* (poolFeePercent / 100) * 10000 is poolFeePercent (in thousandths) / 10.
MathRound10(tenths) == (tenths + 5) \div 10

poolFeeMultiplier == 10000

\* Outcome of a call that returns a bigint or throws.
NoResult == [kind |-> "none", error |-> "", value |-> 0, den |-> 1]
Returned(v) == [kind |-> "ok", error |-> "", value |-> v, den |-> 1]
Threw(e) == [kind |-> "throw", error |-> e, value |-> 0, den |-> 1]
\* Outcome of an async call: the promise resolved, or rejected with a message.
Resolved == [kind |-> "ok", error |-> "", value |-> 0, den |-> 1]
Rejected(e) == [kind |-> "reject", error |-> e, value |-> 0, den |-> 1]
\* Outcome of a call that returns a JavaScript number: the quotient
\* 100 * value / den of two converted integers, or NaN (0 / 0).
ReturnedNumber(n, d) == [kind |-> "number", error |-> "", value |-> n, den |-> d]
ReturnedNaN == [kind |-> "NaN", error |-> "", value |-> 0, den |-> 0]

\* x / y on bigints: throws RangeError on a zero divisor.
BigIntDivide(x, y, plus) ==
    IF y = 0 THEN Threw("RangeError") ELSE Returned(TruncDiv(x, y) + plus)

(***************************************************************************)
(* Pools and tokens.                                                       *)
(***************************************************************************)
Lovelace == [policyId |-> "lovelace", nameHex |-> ""]
Asset(policyId, nameHex) == [policyId |-> policyId, nameHex |-> nameHex]
Saturn == Asset("p1", "SATURN")
Tokens == {Lovelace, Saturn}

\* poolFeePercent values, in thousandths of a percent:
\* 0%, 0.3%, 0.305%, 1%, 50%, 99.99%.
FeePercents == {0, 300, 305, 1000, 50000, 99990}

Pools ==
    [assetA : {Lovelace}, assetB : {Saturn},
     reserveA : 0..MaxReserve, reserveB : 0..MaxReserve,
     poolFeePercent : FeePercents]

\* The fees of FeePercents for which the double
\* (poolFeePercent / 100) * Number(poolFeeMultiplier) is below the exact
\* product: 0.305 gives 30.499999999999996 and 99.99 gives 9998.999999999998;
\* for the other fees the double is the exact product.
DoubleBelowExact == {305, 99990}

\* Math.round of that double: a double just below a half rounds down.
MathRoundOfDouble(feePercent) ==
    IF feePercent \in DoubleBelowExact /\ (feePercent + 5) % 10 = 0
    THEN MathRound10(feePercent) - 1
    ELSE MathRound10(feePercent)

\* feeBps of a pool: Math.round((poolFeePercent / 100) * Number(poolFeeMultiplier)).
FeeBps(pool) == MathRoundOfDouble(pool.poolFeePercent)

poolFeeModifier(pool) == poolFeeMultiplier - FeeBps(pool)

\* [reserve of token, reserve of the other token]
correspondingReserves(pool, token) ==
    IF token = pool.assetA
    THEN <<pool.reserveA, pool.reserveB>>
    ELSE <<pool.reserveB, pool.reserveA>>

OtherToken(pool, token) == IF token = pool.assetA THEN pool.assetB ELSE pool.assetA

(***************************************************************************)
(* Swap arithmetic, first definition of the class.                         *)
(***************************************************************************)
\* estimatedGive without the trailing + 1n.
estimatedGive_NoRoundUp(pool, swapOutToken, swapOutAmount) ==
    LET reserveOut == correspondingReserves(pool, swapOutToken)[1]
        reserveIn == correspondingReserves(pool, swapOutToken)[2]
    IN  BigIntDivide(swapOutAmount * reserveIn * poolFeeMultiplier,
                     (reserveOut - swapOutAmount) * poolFeeModifier(pool), 0)

\* estimatedGive with the pair of correspondingReserves taken the other way.
estimatedGive_ReservesSwapped(pool, swapOutToken, swapOutAmount) ==
    LET reserveIn == correspondingReserves(pool, swapOutToken)[1]
        reserveOut == correspondingReserves(pool, swapOutToken)[2]
    IN  BigIntDivide(swapOutAmount * reserveIn * poolFeeMultiplier,
                     (reserveOut - swapOutAmount) * poolFeeModifier(pool), 1)

estimatedGive(pool, swapOutToken, swapOutAmount) ==
    LET reserveOut == correspondingReserves(pool, swapOutToken)[1]
        reserveIn == correspondingReserves(pool, swapOutToken)[2]
        swapInNumerator == swapOutAmount * reserveIn * poolFeeMultiplier
        swapInDenominator == (reserveOut - swapOutAmount) * poolFeeModifier(pool)
    IN  BigIntDivide(swapInNumerator, swapInDenominator, 1)

swapOutNumerator(pool, swapInToken, swapInAmount) ==
    LET reserveOut == correspondingReserves(pool, swapInToken)[2]
    IN  swapInAmount * reserveOut * poolFeeModifier(pool)

swapOutDenominator(pool, swapInToken, swapInAmount) ==
    LET reserveIn == correspondingReserves(pool, swapInToken)[1]
    IN  swapInAmount * poolFeeModifier(pool) + reserveIn * poolFeeMultiplier

\* estimatedReceive with the quotient rounded up.
estimatedReceive_RoundsUp(pool, swapInToken, swapInAmount) ==
    BigIntDivide(swapOutNumerator(pool, swapInToken, swapInAmount),
                 swapOutDenominator(pool, swapInToken, swapInAmount), 1)

\* estimatedReceive with the fee not taken from the amount.
estimatedReceive_NoFee(pool, swapInToken, swapInAmount) ==
    LET reserveIn == correspondingReserves(pool, swapInToken)[1]
        reserveOut == correspondingReserves(pool, swapInToken)[2]
    IN  BigIntDivide(swapInAmount * reserveOut * poolFeeMultiplier,
                     swapInAmount * poolFeeMultiplier + reserveIn * poolFeeMultiplier, 0)

\* estimatedReceive with the fee in the place of the fee modifier.
estimatedReceive_FeeForModifier(pool, swapInToken, swapInAmount) ==
    LET reserveIn == correspondingReserves(pool, swapInToken)[1]
        reserveOut == correspondingReserves(pool, swapInToken)[2]
    IN  BigIntDivide(swapInAmount * reserveOut * FeeBps(pool),
                     swapInAmount * FeeBps(pool) + reserveIn * poolFeeMultiplier, 0)

estimatedReceive(pool, swapInToken, swapInAmount) ==
    BigIntDivide(swapOutNumerator(pool, swapInToken, swapInAmount),
                 swapOutDenominator(pool, swapInToken, swapInAmount), 0)

impactSwapOutNumerator(pool, swapInToken, swapInAmount) ==
    LET reserveOut == correspondingReserves(pool, swapInToken)[2]
    IN  swapInAmount * poolFeeModifier(pool) * reserveOut

impactSwapOutDenominator(pool, swapInToken, swapInAmount) ==
    LET reserveIn == correspondingReserves(pool, swapInToken)[1]
    IN  swapInAmount * poolFeeModifier(pool) + reserveIn * poolFeeMultiplier

\* priceImpactNumerator with the multiplier in the place of the fee modifier.
priceImpactNumerator_NoFee(pool, swapInToken, swapInAmount) ==
    LET reserveIn == correspondingReserves(pool, swapInToken)[1]
        reserveOut == correspondingReserves(pool, swapInToken)[2]
    IN  (reserveOut * swapInAmount
            * impactSwapOutDenominator(pool, swapInToken, swapInAmount)
            * poolFeeMultiplier)
        - (impactSwapOutNumerator(pool, swapInToken, swapInAmount)
            * reserveIn * poolFeeMultiplier)

priceImpactNumerator(pool, swapInToken, swapInAmount) ==
    LET reserveIn == correspondingReserves(pool, swapInToken)[1]
        reserveOut == correspondingReserves(pool, swapInToken)[2]
    IN  (reserveOut * swapInAmount
            * impactSwapOutDenominator(pool, swapInToken, swapInAmount)
            * poolFeeModifier(pool))
        - (impactSwapOutNumerator(pool, swapInToken, swapInAmount)
            * reserveIn * poolFeeMultiplier)

priceImpactDenominator(pool, swapInToken, swapInAmount) ==
    LET reserveOut == correspondingReserves(pool, swapInToken)[2]
    IN  reserveOut * swapInAmount
            * impactSwapOutDenominator(pool, swapInToken, swapInAmount)
            * poolFeeMultiplier

\* Number(priceImpactNumerator * 100n) / Number(priceImpactDenominator)
priceImpactPercent(pool, swapInToken, swapInAmount) ==
    IF priceImpactDenominator(pool, swapInToken, swapInAmount) = 0
    THEN ReturnedNaN
    ELSE ReturnedNumber(priceImpactNumerator(pool, swapInToken, swapInAmount),
                        priceImpactDenominator(pool, swapInToken, swapInAmount))

(***************************************************************************)
(* Swap arithmetic, second definition of the class.                        *)
(***************************************************************************)
LimitOrderDexError ==
    "SaturnSwap is a limit-order DEX. Use order book queries to determine swap amounts."

estimatedGive2(pool, swapOutToken, swapOutAmount) == Threw(LimitOrderDexError)

\* estimatedReceive of the second definition that answers 0 for an empty swap.
estimatedReceive2_ZeroForNothing(pool, swapInToken, swapInAmount) ==
    IF swapInAmount = 0 THEN Returned(0) ELSE Threw(LimitOrderDexError)

estimatedReceive2(pool, swapInToken, swapInAmount) == Threw(LimitOrderDexError)

priceImpactPercent2(pool, swapInToken, swapInAmount) == ReturnedNumber(0, 1)

(***************************************************************************)
(* Datum definitions and DatumParameters.                                  *)
(***************************************************************************)
\* A DatumParameters value: a bigint/number, a string, or undefined.
IntV(n) == [t |-> "int", n |-> n, s |-> ""]
BytesV(str) == [t |-> "bytes", n |-> 0, s |-> str]
Undefined == [t |-> "undefined", n |-> 0, s |-> ""]

\* Definition nodes: a constructor with a fixed tag, a constructor whose tag
\* is a parameter, a bytes leaf and an int leaf.
Constr(tag, fields) == [kind |-> "constr", tag |-> tag, key |-> "", fields |-> fields]
ConstrKey(key, fields) == [kind |-> "constr", tag |-> -1, key |-> key, fields |-> fields]
BytesField(key) == [kind |-> "bytes", tag |-> 0, key |-> key, fields |-> <<>>]
IntField(key) == [kind |-> "int", tag |-> 0, key |-> key, fields |-> <<>>]

\* Order definition used by the first definition of the class.
order1 ==
    Constr(0, <<
        Constr(0, <<
            Constr(0, << BytesField("SenderPubKeyHash") >>),
            Constr(0, << Constr(0, << Constr(0, << BytesField("SenderStakingKeyHash") >>) >>) >>)
        >>),
        Constr(0, << ConstrKey("Action", <<>>), IntField("MinReceive") >>),
        Constr(0, << BytesField("SwapInTokenPolicyId"), BytesField("SwapInTokenAssetName") >>),
        IntField("SwapInAmount"),
        Constr(0, << BytesField("SwapOutTokenPolicyId"), BytesField("SwapOutTokenAssetName") >>),
        IntField("DepositFee")
    >>)

\* Order definition (SwapDatum) used by the second definition of the class.
orderDefinition ==
    Constr(0, <<
        Constr(0, <<
            Constr(0, << BytesField("SenderPubKeyHash") >>),
            Constr(0, << Constr(0, << BytesField("SenderStakingKeyHash") >>) >>)
        >>),
        BytesField("TokenPolicyId"),
        BytesField("TokenAssetName"),
        IntField("SwapInAmount"),
        BytesField("SwapOutTokenPolicyId"),
        BytesField("SwapOutTokenAssetName"),
        IntField("MinReceive"),
        Constr(0, <<>>),
        Constr(0, << BytesField("PoolIdentifier"), IntField("BatcherFee") >>)
    >>)

\* Pool definition (default export of pool.ts, lines 8-60).
pool1 ==
    Constr(0, <<
        BytesField("PoolIdentifier"),
        Constr(0, << BytesField("PoolAssetAPolicyId"), BytesField("PoolAssetAAssetName") >>),
        Constr(0, << BytesField("PoolAssetBPolicyId"), BytesField("PoolAssetBAssetName") >>),
        IntField("ReserveA"),
        IntField("ReserveB"),
        IntField("TotalLpTokens"),
        IntField("LpFeeNumerator"),
        IntField("LpFeeDenominator")
    >>)

\* poolDefinition with the key of an int field on a bytes field as well.
poolDefinition_KeyAcrossKinds ==
    Constr(2, <<
        BytesField("PoolAssetAPolicyId"),
        BytesField("PoolAssetAAssetName"),
        IntField("LpFee"),
        IntField("LpFeeNumerator"),
        IntField("ReserveA"),
        BytesField("PoolAssetBPolicyId"),
        BytesField("PoolAssetBAssetName"),
        IntField("TotalLpTokens"),
        IntField("LpFeeDenominator"),
        IntField("ReserveB"),
        BytesField("LpFee")
    >>)

\* Pool definition (ControlDatum, pool.ts lines 85-133).
poolDefinition ==
    Constr(2, <<
        BytesField("PoolAssetAPolicyId"),
        BytesField("PoolAssetAAssetName"),
        IntField("LpFee"),
        IntField("LpFeeNumerator"),
        IntField("ReserveA"),
        BytesField("PoolAssetBPolicyId"),
        BytesField("PoolAssetBAssetName"),
        IntField("TotalLpTokens"),
        IntField("LpFeeDenominator"),
        IntField("ReserveB"),
        IntField("LpFee")
    >>)

\* The parameter keys a definition refers to.
RECURSIVE DefinitionKeys(_)
DefinitionKeys(node) ==
    IF node.kind = "constr"
    THEN (IF node.key = "" THEN {} ELSE {node.key})
         \cup UNION {DefinitionKeys(node.fields[i]) : i \in 1..Len(node.fields)}
    ELSE {node.key}

Present(params, key) == key \in DOMAIN params /\ params[key].t # "undefined"

\* push fails with MissingParameter when a key of the definition is absent.
MissingParameter(definition, params) ==
    \E key \in DefinitionKeys(definition) : ~Present(params, key)

\* push: the definition with every key replaced by the parameter's value.
RECURSIVE pushParameters(_, _)
pushParameters(node, params) ==
    IF node.kind = "constr"
    THEN [kind |-> "constr",
          tag |-> IF node.key = "" THEN node.tag ELSE params[node.key].n,
          value |-> Undefined,
          fields |-> [i \in 1..Len(node.fields) |-> pushParameters(node.fields[i], params)]]
    ELSE [kind |-> node.kind, tag |-> 0, value |-> params[node.key], fields |-> <<>>]

\* Wire form of a datum: the nodes in prefix order, a constructor with its
\* tag and its number of children, a leaf with its value.
RECURSIVE Concat(_)
Concat(seqs) == IF seqs = <<>> THEN <<>> ELSE Head(seqs) \o Concat(Tail(seqs))

RECURSIVE getCbor(_)
getCbor(datum) ==
    IF datum.kind = "constr"
    THEN << [t |-> "constr", n |-> datum.tag, s |-> "", arity |-> Len(datum.fields)] >>
         \o Concat([i \in 1..Len(datum.fields) |-> getCbor(datum.fields[i])])
    ELSE << [t |-> datum.kind, n |-> datum.value.n, s |-> datum.value.s, arity |-> 0] >>

NoDatum == <<>>

SchemaMismatch == "SchemaMismatch"

\* pull walks definition and datum in lock-step: a constructor's tag and
\* number of children, and a leaf's kind, must be the definition's.
RECURSIVE SchemaMatches(_, _)
SchemaMatches(node, d) ==
    IF node.kind = "constr"
    THEN /\ d.kind = "constr"
         /\ node.key # "" \/ d.tag = node.tag
         /\ Len(d.fields) = Len(node.fields)
         /\ \A i \in 1..Len(node.fields) : SchemaMatches(node.fields[i], d.fields[i])
    ELSE /\ d.kind = node.kind
         /\ d.value.t = node.kind

\* The values pull records, each under the key of its leaf, in the order of
\* the walk: a later leaf of the same key replaces what an earlier one recorded.
RECURSIVE ExtractParameters(_, _)
RECURSIVE ExtractFields(_, _, _)
ExtractFields(nodes, ds, found) ==
    IF nodes = <<>> THEN found
    ELSE ExtractFields(Tail(nodes), Tail(ds),
                       ExtractParameters(Head(nodes), Head(ds)) @@ found)

ExtractParameters(node, d) ==
    IF node.kind = "constr"
    THEN ExtractFields(node.fields, d.fields,
                       IF node.key = "" THEN [k \in {} |-> Undefined]
                       ELSE (node.key :> IntV(d.tag)))
    ELSE (node.key :> d.value)

\* pull: the parameters of a datum of the definition, or SchemaMismatch.
pullParameters(node, d) ==
    IF SchemaMatches(node, d)
    THEN [ok |-> TRUE, parameters |-> ExtractParameters(node, d)]
    ELSE [ok |-> FALSE, parameters |-> [k \in {} |-> Undefined]]

\* No definition loaded, no datum, no object.
NoDefinition == [kind |-> "none", tag |-> 0, key |-> "", fields |-> <<>>]
NoDatumTree == [kind |-> "none", tag |-> 0, value |-> Undefined, fields |-> <<>>]
NoObject == [kind |-> "none"]

(***************************************************************************)
(* On-chain constants of the two definitions of the class.                 *)
(***************************************************************************)
poolAddress1 == "addr1_SATURN_POOL_ADDRESS"
orderAddress1 == "addr1_SATURN_ORDER_ADDRESS"
cancelDatum1 == "d87a80"
orderScript1 == [type |-> "PlutusV2", script |-> "SATURN_ORDER_SCRIPT_CBOR"]

ORDER_SCRIPT_HASH == "3cf991c2d5b47006c2106c105332456af4d88321301f292f434ad01b"
LIQUIDITY_ADDRESS ==
    "addr1qy3v66uc8shcm3c4kqkjhjqe76dh3y0cvq3awa6lnjvj52nrlasf2cg9vah02a70g2n93p202prq9hgzxph7zuunjgrqjev82a"
MAIN_ADDRESS ==
    "addr1q80ukhmvgtm498e3h6pwpe52whpdh98yy4qfwup5zqg7lqz75jq4yvpskgayj55xegdp30g5rfynax66r8vgn9fldndskl33sd"
poolAddress2 == LIQUIDITY_ADDRESS
orderAddress2 == MAIN_ADDRESS
cancelDatum2 == "d87a8100"
orderScript2 == [type |-> "PlutusV2", script |-> ORDER_SCRIPT_HASH]

orderAddress == IF classDef = 1 THEN orderAddress1 ELSE orderAddress2
cancelDatum == IF classDef = 1 THEN cancelDatum1 ELSE cancelDatum2
orderScript == IF classDef = 1 THEN orderScript1 ELSE orderScript2

\* swapOrderFees(): the same list in both definitions.
depositValue == 2000000

swapOrderFees ==
    << [id |-> "deposit", title |-> "Deposit", value |-> depositValue, isReturned |-> TRUE] >>

DepositNotConfigured == "Deposit fee not configured."
OrderNotFound == "Unable to find Saturn order UTxO for cancellation."
MissingParameterError == "MissingParameter"

(***************************************************************************)
(* Payments.                                                               *)
(***************************************************************************)
AssetBalance(asset, quantity) == [asset |-> asset, quantity |-> quantity]

PayToAddress(address, addressType, assetBalances, datum, isInlineDatum, spend) ==
    [address |-> address, addressType |-> addressType, assetBalances |-> assetBalances,
     datum |-> datum, isInlineDatum |-> isInlineDatum, spendUtxos |-> spend]

\* What a build call ends with: the promise's outcome and the list it carries.
Outcome(res, pays) == [result |-> res, payments |-> pays]

ParamN(params, key) == IF key \in DOMAIN params THEN params[key].n ELSE 0
ParamS(params, key) == IF key \in DOMAIN params THEN params[key].s ELSE ""
\* JavaScript truthiness of params[key].
Truthy(params, key) ==
    /\ key \in DOMAIN params
    /\ \/ params[key].t = "int" /\ params[key].n # 0
       \/ params[key].t = "bytes" /\ params[key].s # ""

\* The token the payment is made in.
SwapInToken(params) ==
    IF Truthy(params, "SwapInTokenPolicyId")
    THEN Asset(ParamS(params, "SwapInTokenPolicyId"), ParamS(params, "SwapInTokenAssetName"))
    ELSE Lovelace

\* BaseDex.buildSwapOrderPayment: adds the swap-in amount to the payment.
buildSwapOrderPayment(params, orderPayment) ==
    LET swapInAmount == ParamN(params, "SwapInAmount")
        swapInToken == SwapInToken(params)
    IN  IF swapInToken = Lovelace
        THEN [orderPayment EXCEPT !.assetBalances[1].quantity = @ + swapInAmount]
        ELSE [orderPayment EXCEPT
                !.assetBalances = Append(@, AssetBalance(swapInToken, swapInAmount))]

\* What this.swapOrderFees() returns: the list of the class, or the list of a
\* subclass that overrides the method and configures no fee.
FeeSchedules == {swapOrderFees, <<>>}

DepositFees == SelectSeq(feeSchedule, LAMBDA fee : fee.id = "deposit")

\* buildSwapOrder, first definition of the class.
buildSwapOrder(params, spend) ==
    IF DepositFees = <<>>
    THEN Outcome(Rejected(DepositNotConfigured), <<>>)
    ELSE
        LET deposit == Head(DepositFees)
            withDeposit == ("DepositFee" :> IntV(deposit.value)) @@ params
        IN  IF MissingParameter(order1, withDeposit)
            THEN Outcome(Rejected(MissingParameterError), <<>>)
            ELSE Outcome(Resolved, <<
                    buildSwapOrderPayment(withDeposit,
                        PayToAddress(orderAddress1, "Contract",
                            << AssetBalance(Lovelace, deposit.value) >>,
                            getCbor(pushParameters(order1, withDeposit)),
                            TRUE, spend)) >>)

\* buildSwapOrder of the second definition with the deposit left out of the total.
buildSwapOrder2_NoDeposit(params, spend) ==
    IF MissingParameter(orderDefinition, ("DepositFee" :> IntV(depositValue)) @@ params)
    THEN Outcome(Rejected(MissingParameterError), <<>>)
    ELSE Outcome(Resolved, <<
            PayToAddress(orderAddress2, "Contract",
                << AssetBalance(SwapInToken(params), ParamN(params, "SwapInAmount")) >>,
                getCbor(pushParameters(orderDefinition,
                                       ("DepositFee" :> IntV(depositValue)) @@ params)),
                TRUE, spend) >>)

\* buildSwapOrder of the second definition with the datum built before the
\* deposit is looked at.
buildSwapOrder2_PushFirst(params, spend) ==
    IF MissingParameter(orderDefinition, ("DepositFee" :> IntV(0)) @@ params)
    THEN Outcome(Rejected(MissingParameterError), <<>>)
    ELSE IF DepositFees = <<>>
    THEN Outcome(Rejected(DepositNotConfigured), <<>>)
    ELSE Outcome(Resolved, <<
            PayToAddress(orderAddress2, "Contract",
                << AssetBalance(SwapInToken(params),
                                Head(DepositFees).value + ParamN(params, "SwapInAmount")) >>,
                getCbor(pushParameters(orderDefinition,
                            ("DepositFee" :> IntV(Head(DepositFees).value)) @@ params)),
                TRUE, spend) >>)

\* buildSwapOrder of the second definition with the failure of pushParameters
\* swallowed: the payment is returned without a datum.
buildSwapOrder2_IgnoresPushFailure(params, spend) ==
    IF DepositFees = <<>>
    THEN Outcome(Rejected(DepositNotConfigured), <<>>)
    ELSE Outcome(Resolved, <<
            PayToAddress(orderAddress2, "Contract",
                << AssetBalance(SwapInToken(params),
                                Head(DepositFees).value + ParamN(params, "SwapInAmount")) >>,
                IF MissingParameter(orderDefinition,
                        ("DepositFee" :> IntV(Head(DepositFees).value)) @@ params)
                THEN NoDatum
                ELSE getCbor(pushParameters(orderDefinition,
                        ("DepositFee" :> IntV(Head(DepositFees).value)) @@ params)),
                TRUE, spend) >>)

\* buildSwapOrder, second definition of the class.
buildSwapOrder2(params, spend) ==
    IF DepositFees = <<>>
    THEN Outcome(Rejected(DepositNotConfigured), <<>>)
    ELSE
        LET deposit == Head(DepositFees)
            swapDatumParameters ==
                ("DepositFee" :> IntV(deposit.value))
                @@ ("Unknown" :> BytesV(""))
                @@ ("Expiration" :> IF Truthy(params, "Expiration")
                                    THEN params["Expiration"] ELSE Undefined)
                @@ params
        IN  IF MissingParameter(orderDefinition, swapDatumParameters)
            THEN Outcome(Rejected(MissingParameterError), <<>>)
            ELSE
                LET swapInAmount == ParamN(params, "SwapInAmount")
                    totalAmount == deposit.value + swapInAmount
                IN  Outcome(Resolved, <<
                        PayToAddress(orderAddress2, "Contract",
                            << AssetBalance(SwapInToken(params), totalAmount) >>,
                            getCbor(pushParameters(orderDefinition, swapDatumParameters)),
                            TRUE, spend) >>)

SpendUTxO(utxo, redeemer, validator, signer) ==
    [utxo |-> utxo, redeemer |-> redeemer, validator |-> validator, signer |-> signer]

\* buildCancelSwapOrder of the second definition with the signer's address in
\* the place of the redeemer.
buildCancelSwapOrder2_SignerAsRedeemer(outputs, ret) ==
    IF \A i \in 1..Len(outputs) : outputs[i].address # orderAddress2
    THEN Outcome(Rejected(OrderNotFound), <<>>)
    ELSE LET i == CHOOSE k \in 1..Len(outputs) :
                    /\ outputs[k].address = orderAddress2
                    /\ \A j \in 1..(k - 1) : outputs[j].address # orderAddress2
         IN  Outcome(Resolved, <<
                PayToAddress(ret, "Base", outputs[i].assetBalances, NoDatum, FALSE,
                    << SpendUTxO(outputs[i], ret, orderScript2, ret) >>) >>)

\* find that falls back to the first output when none is at the address.
FindAt_FirstOtherwise(outputs, address) ==
    IF \E i \in 1..Len(outputs) : outputs[i].address = address
    THEN CHOOSE i \in 1..Len(outputs) :
            /\ outputs[i].address = address
            /\ \A j \in 1..(i - 1) : outputs[j].address # address
    ELSE IF Len(outputs) > 0 THEN 1 ELSE 0

\* find that takes the last output at the address.
FindAt_Last(outputs, address) ==
    IF \E i \in 1..Len(outputs) : outputs[i].address = address
    THEN CHOOSE i \in 1..Len(outputs) :
            /\ outputs[i].address = address
            /\ \A j \in (i + 1)..Len(outputs) : outputs[j].address # address
    ELSE 0

\* txOutputs.find(utxo => utxo.address === address): the first index, or 0.
FindAt(outputs, address) ==
    IF \E i \in 1..Len(outputs) : outputs[i].address = address
    THEN CHOOSE i \in 1..Len(outputs) :
            /\ outputs[i].address = address
            /\ \A j \in 1..(i - 1) : outputs[j].address # address
    ELSE 0

\* buildCancelSwapOrder, first definition of the class.
buildCancelSwapOrder(outputs, ret) ==
    LET i == FindAt(outputs, orderAddress1)
    IN  IF i = 0
        THEN Outcome(Rejected(OrderNotFound), <<>>)
        ELSE Outcome(Resolved, <<
                PayToAddress(ret, "Base", outputs[i].assetBalances, NoDatum, FALSE,
                    << SpendUTxO(outputs[i], cancelDatum1, orderScript1, ret) >>) >>)

\* buildCancelSwapOrder of the second definition that returns the deposit and
\* keeps the rest of what the output holds.
buildCancelSwapOrder2_DepositOnly(outputs, ret) ==
    LET i == FindAt(outputs, orderAddress2)
    IN  IF i = 0
        THEN Outcome(Rejected(OrderNotFound), <<>>)
        ELSE Outcome(Resolved, <<
                PayToAddress(ret, "Base", << AssetBalance(Lovelace, depositValue) >>,
                    NoDatum, FALSE,
                    << SpendUTxO(outputs[i], cancelDatum2, orderScript2, ret) >>) >>)

\* buildCancelSwapOrder, second definition of the class.
buildCancelSwapOrder2(outputs, ret) ==
    LET i == FindAt(outputs, orderAddress2)
    IN  IF i = 0
        THEN Outcome(Rejected(OrderNotFound), <<>>)
        ELSE Outcome(Resolved, <<
                PayToAddress(ret, "Base", outputs[i].assetBalances, NoDatum, FALSE,
                    << SpendUTxO(outputs[i], cancelDatum2, orderScript2, ret) >>) >>)

(***************************************************************************)
(* Inputs of the calls.                                                    *)
(***************************************************************************)
MaxOutputs == 2

Amounts == 0..MaxAmount

DefaultPool ==
    [assetA |-> Lovelace, assetB |-> Saturn, reserveA |-> 0, reserveB |-> 0,
     poolFeePercent |-> 300]

\* reserveOut * swapInAmount * swapOutDenominator of a priceImpactPercent call.
ImpactTerm(pool, token, amount) ==
    correspondingReserves(pool, token)[2] * amount
        * impactSwapOutDenominator(pool, token, amount)

AllKeys ==
    {"SenderPubKeyHash", "SenderStakingKeyHash", "Action", "MinReceive",
     "SwapInTokenPolicyId", "SwapInTokenAssetName", "SwapInAmount",
     "SwapOutTokenPolicyId", "SwapOutTokenAssetName", "TokenPolicyId",
     "TokenAssetName", "PoolIdentifier", "BatcherFee", "Expiration", "DepositFee"}

AssetNameOf(policy) == IF policy = "" THEN "" ELSE "SATURN"

\* A caller's parameter table: the token sold (sell) as the payment keys name
\* it, the token sold (tok) as the SwapDatum keys name it, the amount sold,
\* an expiry (0: none given), a DepositFee of the caller's (0: none given),
\* and one key left out (drop).
ParameterTable(sell, tok, amt, expiry, dep, drop) ==
    LET full ==
            [k \in AllKeys |->
                CASE k = "SenderPubKeyHash" -> BytesV("pkh")
                  [] k = "SenderStakingKeyHash" -> BytesV("skh")
                  [] k = "Action" -> IntV(0)
                  [] k = "MinReceive" -> IntV(1)
                  [] k = "SwapInTokenPolicyId" -> BytesV(sell)
                  [] k = "SwapInTokenAssetName" -> BytesV(AssetNameOf(sell))
                  [] k = "SwapInAmount" -> IntV(amt)
                  [] k = "SwapOutTokenPolicyId" -> BytesV("p2")
                  [] k = "SwapOutTokenAssetName" -> BytesV("OUT")
                  [] k = "TokenPolicyId" -> BytesV(tok)
                  [] k = "TokenAssetName" -> BytesV(AssetNameOf(tok))
                  [] k = "PoolIdentifier" -> BytesV("tx0")
                  [] k = "BatcherFee" -> IntV(0)
                  [] k = "Expiration" -> IntV(expiry)
                  [] k = "DepositFee" -> IntV(dep)]
        absent ==
            {drop} \cup (IF expiry = 0 THEN {"Expiration"} ELSE {})
                   \cup (IF dep = 0 THEN {"DepositFee"} ELSE {})
    IN  [k \in AllKeys \ absent |-> full[k]]

ParameterTables ==
    {ParameterTable(sell, tok, amt, expiry, dep, drop) :
        sell \in {"", "p1"}, tok \in {"", "p1"}, amt \in Amounts,
        expiry \in {0, 5}, dep \in {0, 7},
        drop \in {"", "MinReceive", "SwapInAmount"}}

NoParameters == [k \in {} |-> Undefined]

Addresses == {orderAddress1, orderAddress2, "addr1_user"}

UTxOs ==
    {[address |-> a, txHash |-> "tx0", outputIndex |-> 0, assetBalances |-> b] :
        a \in Addresses,
        b \in {<< AssetBalance(Lovelace, depositValue) >>,
               << AssetBalance(Lovelace, depositValue), AssetBalance(Saturn, 1) >>}}

\* The output a submitted order payment becomes: it sits at the payment's
\* address and holds the payment's asset balances.
OrderOutput(payment) ==
    [address |-> payment.address, txHash |-> "order", outputIndex |-> 0,
     assetBalances |-> payment.assetBalances]

Range(seq) == {seq[i] : i \in 1..Len(seq)}

RECURSIVE SeqsUpTo(_, _)
SeqsUpTo(S, n) ==
    IF n = 0 THEN {<<>>}
    ELSE SeqsUpTo(S, n - 1)
         \cup {Append(q, x) : q \in {r \in SeqsUpTo(S, n - 1) : Len(r) = n - 1}, x \in S}

SpendLists ==
    {<<>>,
     << SpendUTxO([address |-> "addr1_user", txHash |-> "tx0", outputIndex |-> 0,
                   assetBalances |-> << AssetBalance(Lovelace, depositValue) >>],
                  "", orderScript1, "addr1_user") >>}

\* The definitions a DefinitionBuilder is loaded with.
Schemas == {order1, orderDefinition, pool1, poolDefinition}

\* The keys of a definition whose value is an integer: its int leaves and
\* its constructors with a parameter for a tag.
RECURSIVE IntKeys(_)
IntKeys(node) ==
    IF node.kind = "constr"
    THEN (IF node.key = "" THEN {} ELSE {node.key})
         \cup UNION {IntKeys(node.fields[i]) : i \in 1..Len(node.fields)}
    ELSE IF node.kind = "int" THEN {node.key} ELSE {}

CodecKeys ==
    << "SenderPubKeyHash", "SenderStakingKeyHash", "Action", "MinReceive",
       "SwapInTokenPolicyId", "SwapInTokenAssetName", "SwapInAmount",
       "SwapOutTokenPolicyId", "SwapOutTokenAssetName", "TokenPolicyId",
       "TokenAssetName", "PoolIdentifier", "BatcherFee", "Expiration", "DepositFee",
       "PoolAssetAPolicyId", "PoolAssetAAssetName", "PoolAssetBPolicyId",
       "PoolAssetBAssetName", "ReserveA", "ReserveB", "TotalLpTokens",
       "LpFee", "LpFeeNumerator", "LpFeeDenominator" >>

KeyNumber(key) == CHOOSE i \in 1..Len(CodecKeys) : CodecKeys[i] = key

\* A parameter table for a definition: a value of the right kind for each of
\* its keys (variant v of the values), the keys of drop left out, the keys of
\* extra added.
TableFor(schema, v, drop, extra) ==
    [k \in (DefinitionKeys(schema) \ drop) \cup extra |->
        IF k \in IntKeys(schema) \/ k = "Expiration"
        THEN IntV(10 * KeyNumber(k) + v)
        ELSE BytesV(IF v = 1 THEN k ELSE "ff")]

CodecTables(schema) ==
    {TableFor(schema, v, drop, extra) :
        v \in 1..2,
        drop \in {{}, {CHOOSE k \in DefinitionKeys(schema) : TRUE}},
        extra \in {{}, {"Expiration"}}}

IntLeaf(n) == [kind |-> "int", tag |-> 0, value |-> IntV(n), fields |-> <<>>]
BytesLeaf(str) == [kind |-> "bytes", tag |-> 0, value |-> BytesV(str), fields |-> <<>>]

\* The datums a provider may hand over for a definition: one built by push,
\* and the same with another constructor index, with a field less, with a
\* bytes field and with another integer in the place of the last field.
ChainDatums(schema) ==
    LET d == pushParameters(schema, TableFor(schema, 1, {}, {}))
        n == Len(d.fields)
    IN  {d,
         [d EXCEPT !.tag = @ + 1],
         [d EXCEPT !.fields = SubSeq(@, 1, n - 1)],
         [d EXCEPT !.fields[n] = BytesLeaf("00")],
         [d EXCEPT !.fields[n] = IntLeaf(1)]}

(***************************************************************************)
(* The decode functions of the SwapDatum and of the ControlDatum.          *)
(***************************************************************************)
\* Bytes that Data.from cannot parse.
Malformed == [kind |-> "malformed", tag |-> 0, value |-> Undefined, fields |-> <<>>]

ConstrDatum(index, fields) ==
    [kind |-> "constr", tag |-> index, value |-> Undefined, fields |-> fields]

\* Data.from of the wire form of a datum: the nodes are read back in prefix
\* order, a constructor with as many children as its arity says.
RECURSIVE DataAt(_, _)
RECURSIVE DataChildren(_, _, _)
DataChildren(cbor, i, n) ==
    IF n = 0 THEN [nodes |-> <<>>, next |-> i]
    ELSE LET first == DataAt(cbor, i)
             rest == DataChildren(cbor, first.next, n - 1)
         IN  [nodes |-> << first.node >> \o rest.nodes, next |-> rest.next]

DataAt(cbor, i) ==
    IF cbor[i].t = "constr"
    THEN LET children == DataChildren(cbor, i + 1, cbor[i].arity)
         IN  [node |-> ConstrDatum(cbor[i].n, children.nodes), next |-> children.next]
    ELSE [node |-> [kind |-> cbor[i].t, tag |-> 0,
                    value |-> [t |-> cbor[i].t, n |-> cbor[i].n, s |-> cbor[i].s],
                    fields |-> <<>>],
          next |-> i + 1]

DataFrom(cbor) == IF cbor = <<>> THEN Malformed ELSE DataAt(cbor, 1).node

\* BigInt(x) of a field of a parsed datum: a bigint is itself, a string is
\* read as a decimal numeral ('' and '00' are 0, the other strings of the
\* model are no numerals: SyntaxError), an object or undefined throws.
BigIntOf(fields, i) ==
    IF i > Len(fields) THEN [ok |-> FALSE, n |-> 0]
    ELSE IF fields[i].kind = "int" THEN [ok |-> TRUE, n |-> fields[i].value.n]
    ELSE IF fields[i].kind = "bytes" /\ fields[i].value.s \in {"", "00"}
         THEN [ok |-> TRUE, n |-> 0]
    ELSE [ok |-> FALSE, n |-> 0]

ReturnedNull == [kind |-> "null", error |-> "", value |-> 0, den |-> 1]

Null == [kind |-> "null"]

\* decodeSwapDatum: every throw inside is caught and null is returned.
decodeSwapDatum(d) ==
    IF d.kind = "malformed" THEN Null
    ELSE IF d.kind # "constr" \/ d.tag # 0 THEN Null
    ELSE IF Len(d.fields) # 9 THEN Null
    ELSE
        LET fields == d.fields
            amount_sell == BigIntOf(fields, 4)
            amount_buy == BigIntOf(fields, 7)
            valid_before_time == fields[8]
            some == valid_before_time.kind = "constr" /\ valid_before_time.tag = 0
            expiry == IF some THEN BigIntOf(valid_before_time.fields, 1)
                      ELSE [ok |-> TRUE, n |-> 0]
        IN  IF ~amount_sell.ok \/ ~amount_buy.ok \/ ~expiry.ok THEN Null
            ELSE [kind |-> "SwapDatum",
                  owner |-> fields[1],
                  sellToken |-> [policyId |-> fields[2], assetName |-> fields[3],
                                 amount |-> amount_sell.n],
                  buyToken |-> [policyId |-> fields[5], assetName |-> fields[6],
                                amount |-> amount_buy.n],
                  expiry |-> IF some THEN [null |-> FALSE, n |-> expiry.n]
                             ELSE [null |-> TRUE, n |-> 0],
                  outputReference |-> fields[9]]

\* isSwapDatum: constructor 0 with nine fields; false when Data.from throws.
isSwapDatum(d) ==
    /\ d.kind = "constr"
    /\ d.tag = 0
    /\ Len(d.fields) = 9

\* decodeControlDatum: null for another constructor index, and for every
\* throw inside, which is caught.
decodeControlDatum(d) ==
    IF d.kind = "malformed" THEN Null
    ELSE IF d.kind # "constr" \/ d.tag # 2 THEN Null
    ELSE IF Len(d.fields) # 11 THEN Null
    ELSE
        LET fields == d.fields
            n(i) == BigIntOf(fields, i)
        IN  IF \E i \in {3, 4, 5, 8, 9, 10} : ~n(i).ok THEN Null
            ELSE [kind |-> "ControlDatum",
                  tokenOne |-> [policyId |-> fields[1], assetName |-> fields[2],
                                minPrice |-> n(3).n, maxPrice |-> n(4).n,
                                precision |-> n(5).n],
                  tokenTwo |-> [policyId |-> fields[6], assetName |-> fields[7],
                                minPrice |-> n(8).n, maxPrice |-> n(9).n,
                                precision |-> n(10).n],
                  isActive |-> fields[11].kind = "constr" /\ fields[11].tag = 1]

\* The datums given to the decode functions: those of the two definitions,
\* a SwapDatum with an expiry (Some) and without (None), a ControlDatum with
\* the Bool it ends with, bytes that do not parse, and a datum that is no
\* constructor.
DecodeDatums ==
    LET swap == pushParameters(orderDefinition, TableFor(orderDefinition, 1, {}, {}))
        control == pushParameters(poolDefinition, TableFor(poolDefinition, 1, {}, {}))
    IN  ChainDatums(orderDefinition) \cup ChainDatums(poolDefinition)
        \cup {[swap EXCEPT !.fields[8] = ConstrDatum(0, << IntLeaf(5) >>)],
               [swap EXCEPT !.fields[8] = ConstrDatum(1, <<>>)],
               [control EXCEPT !.fields[11] = ConstrDatum(1, <<>>)],
               Malformed, IntLeaf(7)}

(***************************************************************************)
(* liquidityPoolFromUtxo, first definition of the class.                   *)
(***************************************************************************)
lpTokenPolicyId == "SATURN_LP_TOKEN_POLICY_ID"
poolNftPolicyId == "SATURN_POOL_NFT_POLICY_ID"

UndefinedPool == [kind |-> "undefined"]

\* The checks made of the UTxO before a definition is loaded.
PoolNfts(utxo) ==
    SelectSeq(utxo.assetBalances,
              LAMBDA b : b.asset # Lovelace /\ b.asset.policyId = poolNftPolicyId)

RelevantAssets(utxo) ==
    SelectSeq(utxo.assetBalances,
              LAMBDA b : \/ b.asset = Lovelace
                         \/ /\ b.asset.policyId # lpTokenPolicyId
                            /\ b.asset.policyId # poolNftPolicyId)

IsPoolUtxo(utxo) ==
    /\ utxo.datumHash # ""
    /\ PoolNfts(utxo) # <<>>
    /\ Len(RelevantAssets(utxo)) >= 2

\* The pool built from the UTxO and the parameters pulled from its datum.
PoolFromParameters(utxo, parameters) ==
    LET relevantAssets == RelevantAssets(utxo)
        poolNft == Head(PoolNfts(utxo)).asset
    IN  [kind |-> "LiquidityPool",
         dex |-> "SaturnSwap",
         assetA |-> relevantAssets[1].asset,
         assetB |-> relevantAssets[2].asset,
         reserveA |-> relevantAssets[1].quantity,
         reserveB |-> relevantAssets[2].quantity,
         address |-> utxo.address,
         marketOrderAddress |-> orderAddress1,
         limitOrderAddress |-> orderAddress1,
         lpToken |-> Asset(lpTokenPolicyId, poolNft.nameHex),
         identifier |-> poolNft,
         poolFeePercent |-> 300,
         totalLpTokens |-> ParamN(parameters, "TotalLpTokens")]

\* The whole call, the datum being what the provider returns for the hash.
liquidityPoolFromUtxo(utxo, d) ==
    IF ~IsPoolUtxo(utxo) THEN UndefinedPool
    ELSE LET found == pullParameters(pool1, d)
         IN  IF found.ok THEN PoolFromParameters(utxo, found.parameters)
             ELSE UndefinedPool

(***************************************************************************)
(* Concurrent calls.  buildSwapOrder and liquidityPoolFromUtxo are async:  *)
(* a call runs from one await to the next without interruption, and the    *)
(* other calls in progress may run in between.  The definitions order and  *)
(* pool are objects of their modules, shared by all the calls.             *)
(***************************************************************************)
MaxCallers == 2

Callers == 1..MaxCallers

\* The definition objects the class definition in use imports.
LoadedSchemas ==
    IF classDef = 1 THEN [order |-> order1, pool |-> pool1]
    ELSE [order |-> orderDefinition, pool |-> poolDefinition]

\* new DefinitionBuilder() with a builder shared by all the calls.
BuilderOf_Shared(c) == 1

\* new DefinitionBuilder(): each call has a builder of its own.
BuilderOf(c) == c

NewBuilder == [definition |-> "none", datum |-> NoDatumTree]

NoBuilders == [b \in Callers |-> NewBuilder]

NoUtxo == [address |-> "", datumHash |-> "", assetBalances |-> <<>>]

IdleCall ==
    [pc |-> "idle", op |-> "none", parameters |-> NoParameters, spend |-> <<>>,
     utxo |-> NoUtxo, datum |-> NoDatumTree,
     result |-> NoResult, payments |-> <<>>, pool |-> UndefinedPool]

NoCalls == [c \in Callers |-> IdleCall]

\* The parameters buildSwapOrder pushes with a DepositFee of the caller's kept.
SwapDatumParametersOf_CallersDeposit(params) ==
    params @@ ("DepositFee" :> IntV(Head(DepositFees).value))
           @@ ("Unknown" :> BytesV(""))

\* The parameters buildSwapOrder pushes, the deposit configured.
SwapDatumParametersOf(params) ==
    IF classDef = 1
    THEN ("DepositFee" :> IntV(Head(DepositFees).value)) @@ params
    ELSE ("DepositFee" :> IntV(Head(DepositFees).value))
         @@ ("Unknown" :> BytesV(""))
         @@ ("Expiration" :> IF Truthy(params, "Expiration")
                             THEN params["Expiration"] ELSE Undefined)
         @@ params

\* The payments buildSwapOrder returns, cbor being datumBuilder.getCbor().
OrderPaymentsOf(params, spend, cbor) ==
    IF classDef = 1
    THEN << buildSwapOrderPayment(SwapDatumParametersOf(params),
                PayToAddress(orderAddress1, "Contract",
                    << AssetBalance(Lovelace, Head(DepositFees).value) >>,
                    cbor, TRUE, spend)) >>
    ELSE << PayToAddress(orderAddress2, "Contract",
                << AssetBalance(SwapInToken(params),
                       Head(DepositFees).value + ParamN(params, "SwapInAmount")) >>,
                cbor, TRUE, spend) >>

\* The arguments of the concurrent calls.
OrderTables ==
    {ParameterTable("p1", "p1", 1, 0, 0, ""),
     ParameterTable("", "", 2, 5, 7, ""),
     ParameterTable("p1", "p1", 1, 0, 0, "MinReceive")}

PoolUtxos ==
    {[address |-> poolAddress1, datumHash |-> h, assetBalances |-> b] :
        h \in {"", "hash0"},
        b \in {<< AssetBalance(Lovelace, 3), AssetBalance(Saturn, 2),
                  AssetBalance(Asset(poolNftPolicyId, "nft0"), 1) >>,
               << AssetBalance(Lovelace, 3), AssetBalance(Saturn, 2) >>}}

PoolDatums ==
    LET d == pushParameters(pool1, TableFor(pool1, 1, {}, {}))
    IN  {d, [d EXCEPT !.tag = 1]}

(***************************************************************************)
(* The calls.  A caller makes a call (pc = "called"), the method runs to   *)
(* its end (pc = "returned"), the caller drops the outcome.                *)
(***************************************************************************)
Init ==
    /\ classDef \in {1, 2}
    /\ pc = "idle"
    /\ op = "none"
    /\ liquidityPool = DefaultPool
    /\ swapToken = Lovelace
    /\ swapAmount = 0
    /\ swapParameters = NoParameters
    /\ spendUtxos = <<>>
    /\ txOutputs = <<>>
    /\ returnAddress = ""
    /\ result = NoResult
    /\ payments = <<>>
    /\ feeSchedule \in FeeSchedules
    /\ placed = <<>>
    /\ loadedDefinition = NoDefinition
    /\ datumParameters = NoParameters
    /\ datumValue = NoDatumTree
    /\ pulled = NoParameters
    /\ decoded = NoObject
    /\ schemas = LoadedSchemas
    /\ builders = NoBuilders
    /\ calls = NoCalls

CallSwapMath(name, pool, token, amount) ==
    /\ pc' = "called"
    /\ op' = name
    /\ liquidityPool' = pool
    /\ swapToken' = token
    /\ swapAmount' = amount
    /\ UNCHANGED <<classDef, swapParameters, spendUtxos, txOutputs, returnAddress,
                   result, payments, feeSchedule, placed, codec, shared>>

CallEstimatedGive ==
    /\ pc = "idle"
    /\ \E pool \in Pools, token \in Tokens, amount \in Amounts :
        CallSwapMath("estimatedGive", pool, token, amount)

CallEstimatedReceive ==
    /\ pc = "idle"
    /\ \E pool \in Pools, token \in Tokens, amount \in Amounts :
        CallSwapMath("estimatedReceive", pool, token, amount)

CallPriceImpactPercent ==
    /\ pc = "idle"
    /\ \E pool \in Pools, token \in Tokens, amount \in Amounts :
        /\ ImpactTerm(pool, token, amount) <= MaxImpactTerm
        /\ CallSwapMath("priceImpactPercent", pool, token, amount)

CallBuildSwapOrder ==
    /\ pc = "idle"
    /\ \E params \in ParameterTables, spend \in SpendLists :
        /\ pc' = "called"
        /\ op' = "buildSwapOrder"
        /\ swapParameters' = params
        /\ spendUtxos' = spend
        /\ UNCHANGED <<classDef, liquidityPool, swapToken, swapAmount, txOutputs,
                       returnAddress, result, payments, feeSchedule, placed, codec, shared>>

CallBuildCancelSwapOrder ==
    /\ pc = "idle"
    /\ \E outputs \in SeqsUpTo(UTxOs \cup Range(placed), MaxOutputs),
          ret \in {"addr1_user", "addr1_other"} :
        /\ pc' = "called"
        /\ op' = "buildCancelSwapOrder"
        /\ txOutputs' = outputs
        /\ returnAddress' = ret
        /\ UNCHANGED <<classDef, liquidityPool, swapToken, swapAmount, swapParameters,
                       spendUtxos, result, payments, feeSchedule, placed, codec, shared>>

\* A method that returns a value: no argument is assigned.
Return(res) ==
    /\ pc' = "returned"
    /\ result' = res
    /\ UNCHANGED <<classDef, op, liquidityPool, swapToken, swapAmount, swapParameters,
                   spendUtxos, txOutputs, returnAddress, payments, feeSchedule, placed, codec,
                   shared>>

EstimatedGive ==
    /\ pc = "called"
    /\ op = "estimatedGive"
    /\ Return(
           IF classDef = 1
           THEN estimatedGive(liquidityPool, swapToken, swapAmount)
           ELSE estimatedGive2(liquidityPool, swapToken, swapAmount))

EstimatedReceive ==
    /\ pc = "called"
    /\ op = "estimatedReceive"
    /\ Return(
           IF classDef = 1
           THEN estimatedReceive(liquidityPool, swapToken, swapAmount)
           ELSE estimatedReceive2(liquidityPool, swapToken, swapAmount))

PriceImpactPercent ==
    /\ pc = "called"
    /\ op = "priceImpactPercent"
    /\ Return(
           IF classDef = 1
           THEN priceImpactPercent(liquidityPool, swapToken, swapAmount)
           ELSE priceImpactPercent2(liquidityPool, swapToken, swapAmount))

\* A build method: the promise settles; no argument is assigned.
Settle(outcome) ==
    /\ pc' = "returned"
    /\ result' = outcome.result
    /\ payments' = outcome.payments
    /\ UNCHANGED <<classDef, op, liquidityPool, swapToken, swapAmount, swapParameters,
                   spendUtxos, txOutputs, returnAddress, feeSchedule, placed, codec, shared>>

\* buildSwapOrder: the promise settles.  The table with the deposit is a new
\* object (the first definition binds its parameter variable to it, the
\* second a local), kept in datumParameters with the builder's definition
\* and datum; the caller's object and list are assigned nothing.
BuildSwapOrder ==
    /\ pc = "called"
    /\ op = "buildSwapOrder"
    /\ LET outcome == IF classDef = 1
                      THEN buildSwapOrder(swapParameters, spendUtxos)
                      ELSE buildSwapOrder2(swapParameters, spendUtxos)
       IN  /\ pc' = "returned"
           /\ result' = outcome.result
           /\ payments' = outcome.payments
    /\ IF DepositFees = <<>>
       THEN UNCHANGED <<loadedDefinition, datumParameters, datumValue>>
       ELSE LET pushed == SwapDatumParametersOf(swapParameters)
            IN  /\ loadedDefinition' = LoadedSchemas.order
                /\ datumParameters' = pushed
                /\ datumValue' = IF MissingParameter(LoadedSchemas.order, pushed)
                                 THEN NoDatumTree
                                 ELSE pushParameters(LoadedSchemas.order, pushed)
    /\ UNCHANGED <<classDef, op, liquidityPool, swapToken, swapAmount, swapParameters,
                   spendUtxos, txOutputs, returnAddress, feeSchedule, placed, pulled,
                   decoded, shared>>

BuildCancelSwapOrder ==
    /\ pc = "called"
    /\ op = "buildCancelSwapOrder"
    /\ Settle(
           IF classDef = 1
           THEN buildCancelSwapOrder(txOutputs, returnAddress)
           ELSE buildCancelSwapOrder2(txOutputs, returnAddress))

\* The caller submits the transaction of the payment buildSwapOrder resolved
\* with: the payment becomes an output on chain and the order is Placed.  The
\* model follows one order, the one placed last.
SubmitOrder ==
    /\ pc = "returned"
    /\ op = "buildSwapOrder"
    /\ result = Resolved
    /\ placed' = << OrderOutput(payments[1]) >>
    /\ placed' # placed
    /\ UNCHANGED <<classDef, pc, op, liquidityPool, swapToken, swapAmount, swapParameters,
                   spendUtxos, txOutputs, returnAddress, result, payments, feeSchedule,
                   codec, shared>>

\* The variables the codec calls leave alone.
orderCalls == <<liquidityPool, swapToken, swapAmount, swapParameters, spendUtxos,
                txOutputs, returnAddress, payments>>

\* A call that returned an object (kept in the variable of its kind).
Completed == [kind |-> "ok", error |-> "", value |-> 0, den |-> 1]

\* loadDefinition(schema) and pushParameters(params) on a new DefinitionBuilder.
CallPushParameters ==
    /\ pc = "idle"
    /\ \E schema \in Schemas :
        \E params \in CodecTables(schema) :
            /\ pc' = "called"
            /\ op' = "pushParameters"
            /\ loadedDefinition' = schema
            /\ datumParameters' = params
            /\ UNCHANGED <<classDef, feeSchedule, placed, result, orderCalls, datumValue, pulled,
                           decoded, shared>>

PushParameters ==
    /\ pc = "called"
    /\ op = "pushParameters"
    /\ pc' = "returned"
    /\ IF MissingParameter(loadedDefinition, datumParameters)
       THEN /\ result' = Threw(MissingParameterError)
            /\ UNCHANGED datumValue
       ELSE /\ result' = Completed
            /\ datumValue' = pushParameters(loadedDefinition, datumParameters)
    /\ UNCHANGED <<classDef, feeSchedule, placed, op, orderCalls, loadedDefinition,
                   datumParameters, pulled, decoded, shared>>

\* loadDefinition(schema) and pullParameters(datum), the datum a provider's.
CallPullParameters ==
    /\ pc = "idle"
    /\ \E schema \in Schemas :
        \E d \in ChainDatums(schema) :
            /\ pc' = "called"
            /\ op' = "pullParameters"
            /\ loadedDefinition' = schema
            /\ datumValue' = d
            /\ UNCHANGED <<classDef, feeSchedule, placed, result, orderCalls, datumParameters,
                           pulled, decoded, shared>>

\* pullParameters of the datum the caller has just built with the definition.
CallPullPushed ==
    /\ pc = "returned"
    /\ op = "pushParameters"
    /\ result.kind = "ok"
    /\ pc' = "called"
    /\ op' = "pullParameters"
    /\ result' = NoResult
    /\ UNCHANGED <<classDef, feeSchedule, placed, orderCalls, codec, shared>>

PullParameters ==
    /\ pc = "called"
    /\ op = "pullParameters"
    /\ pc' = "returned"
    /\ LET found == pullParameters(loadedDefinition, datumValue)
       IN  IF found.ok
           THEN /\ result' = Completed
                /\ pulled' = found.parameters
           ELSE /\ result' = Threw(SchemaMismatch)
                /\ UNCHANGED pulled
    /\ UNCHANGED <<classDef, feeSchedule, placed, op, orderCalls, loadedDefinition,
                   datumParameters, datumValue, decoded, shared>>

CallDecode ==
    /\ pc = "idle"
    /\ \E name \in {"decodeSwapDatum", "decodeControlDatum", "isSwapDatum"},
          d \in DecodeDatums :
        /\ pc' = "called"
        /\ op' = name
        /\ datumValue' = d
        /\ UNCHANGED <<classDef, feeSchedule, placed, result, orderCalls, loadedDefinition,
                       datumParameters, pulled, decoded, shared>>

\* The datum the caller has just built with the definition is taken in its
\* wire form (getCbor) and given to decodeSwapDatum or isSwapDatum, which
\* reads it with Data.from.
CallDecodePushed ==
    /\ pc = "returned"
    /\ op = "pushParameters"
    /\ result.kind = "ok"
    /\ \E name \in {"decodeSwapDatum", "isSwapDatum"} :
        /\ pc' = "called"
        /\ op' = name
        /\ result' = NoResult
        /\ datumValue' = DataFrom(getCbor(datumValue))
        /\ UNCHANGED <<classDef, feeSchedule, placed, orderCalls, loadedDefinition,
                       datumParameters, pulled, decoded, shared>>

\* A decode function returns: an object, or null.
ReturnDecoded(object) ==
    /\ pc' = "returned"
    /\ result' = IF object = Null THEN ReturnedNull ELSE Completed
    /\ decoded' = object
    /\ UNCHANGED <<classDef, feeSchedule, placed, op, orderCalls, loadedDefinition,
                   datumParameters, datumValue, pulled, shared>>

DecodeSwapDatum ==
    /\ pc = "called"
    /\ op = "decodeSwapDatum"
    /\ ReturnDecoded(decodeSwapDatum(datumValue))

DecodeControlDatum ==
    /\ pc = "called"
    /\ op = "decodeControlDatum"
    /\ ReturnDecoded(decodeControlDatum(datumValue))

\* isSwapDatum returns a boolean (1: true, 0: false).
IsSwapDatum ==
    /\ pc = "called"
    /\ op = "isSwapDatum"
    /\ Return(Returned(IF isSwapDatum(datumValue) THEN 1 ELSE 0))

\* The caller drops the outcome and the arguments.
Discard ==
    /\ pc = "returned"
    /\ pc' = "idle"
    /\ op' = "none"
    /\ liquidityPool' = DefaultPool
    /\ swapToken' = Lovelace
    /\ swapAmount' = 0
    /\ swapParameters' = NoParameters
    /\ spendUtxos' = <<>>
    /\ txOutputs' = <<>>
    /\ returnAddress' = ""
    /\ result' = NoResult
    /\ payments' = <<>>
    /\ loadedDefinition' = NoDefinition
    /\ datumParameters' = NoParameters
    /\ datumValue' = NoDatumTree
    /\ pulled' = NoParameters
    /\ decoded' = NoObject
    /\ UNCHANGED <<classDef, feeSchedule, placed, shared>>

Next ==
    \/ CallEstimatedGive
    \/ CallEstimatedReceive
    \/ CallPriceImpactPercent
    \/ CallBuildSwapOrder
    \/ CallBuildCancelSwapOrder
    \/ EstimatedGive
    \/ EstimatedReceive
    \/ PriceImpactPercent
    \/ BuildSwapOrder
    \/ BuildCancelSwapOrder
    \/ SubmitOrder
    \/ CallPushParameters
    \/ PushParameters
    \/ CallPullParameters
    \/ CallPullPushed
    \/ PullParameters
    \/ CallDecode
    \/ DecodeSwapDatum
    \/ DecodeControlDatum
    \/ CallDecodePushed
    \/ IsSwapDatum
    \/ Discard

Spec == Init /\ [][Next]_vars

(***************************************************************************)
(* The concurrent calls, each step one stretch between two awaits.         *)
(***************************************************************************)
\* The variables of the calls made one at a time.
sequential == <<classDef, feeSchedule, placed, pc, op, result, orderCalls, codec>>

\* buildSwapOrder up to its await: the deposit is looked up, a builder is
\* made and loaded with the order definition.
StartBuildSwapOrder(c) ==
    /\ calls[c].pc = "idle"
    /\ \E params \in OrderTables, spend \in SpendLists :
        LET call == [IdleCall EXCEPT !.op = "buildSwapOrder",
                                     !.parameters = params, !.spend = spend]
        IN  IF DepositFees = <<>>
            THEN /\ calls' = [calls EXCEPT ![c] =
                        [call EXCEPT !.pc = "done",
                                     !.result = Rejected(DepositNotConfigured)]]
                 /\ UNCHANGED builders
            ELSE /\ calls' = [calls EXCEPT ![c] = [call EXCEPT !.pc = "loaded"]]
                 /\ builders' = [builders EXCEPT ![BuilderOf(c)] =
                        [definition |-> "order", datum |-> NoDatumTree]]
    /\ UNCHANGED <<sequential, schemas>>

\* The then-callback of loadDefinition: pushParameters on the builder.
PushOrderParameters(c) ==
    /\ calls[c].pc = "loaded"
    /\ calls[c].op = "buildSwapOrder"
    /\ LET b == BuilderOf(c)
           schema == schemas[builders[b].definition]
           pushed == SwapDatumParametersOf(calls[c].parameters)
       IN  IF MissingParameter(schema, pushed)
           THEN /\ calls' = [calls EXCEPT ![c].pc = "done",
                                          ![c].result = Rejected(MissingParameterError)]
                /\ UNCHANGED builders
           ELSE /\ calls' = [calls EXCEPT ![c].pc = "pushed"]
                /\ builders' = [builders EXCEPT ![b].datum = pushParameters(schema, pushed)]
    /\ UNCHANGED <<sequential, schemas>>

\* After the await: the payment is returned with the builder's getCbor().
ReturnOrderPayments(c) ==
    /\ calls[c].pc = "pushed"
    /\ calls' = [calls EXCEPT
            ![c].pc = "done",
            ![c].result = Resolved,
            ![c].payments = OrderPaymentsOf(calls[c].parameters, calls[c].spend,
                                            getCbor(builders[BuilderOf(c)].datum))]
    /\ UNCHANGED <<sequential, schemas, builders>>

\* liquidityPoolFromUtxo of the first definition up to its first await: the
\* UTxO is checked, a builder is made and loaded with the pool definition.
\* (The second definition's liquidityPoolFromUtxo loads no definition.)
StartLiquidityPoolFromUtxo(c) ==
    /\ classDef = 1
    /\ calls[c].pc = "idle"
    /\ \E utxo \in PoolUtxos, d \in PoolDatums :
        LET call == [IdleCall EXCEPT !.op = "liquidityPoolFromUtxo",
                                     !.utxo = utxo, !.datum = d]
        IN  IF ~IsPoolUtxo(utxo)
            THEN /\ calls' = [calls EXCEPT ![c] = [call EXCEPT !.pc = "done"]]
                 /\ UNCHANGED builders
            ELSE /\ calls' = [calls EXCEPT ![c] = [call EXCEPT !.pc = "loaded"]]
                 /\ builders' = [builders EXCEPT ![BuilderOf(c)] =
                        [definition |-> "pool", datum |-> NoDatumTree]]
    /\ UNCHANGED <<sequential, schemas>>

\* Between the two awaits: provider.datumValue is called.
DatumValue(c) ==
    /\ calls[c].pc = "loaded"
    /\ calls[c].op = "liquidityPoolFromUtxo"
    /\ calls' = [calls EXCEPT ![c].pc = "fetched"]
    /\ UNCHANGED <<sequential, schemas, builders>>

\* After the second await: pullParameters on the builder, and the pool is
\* built; a throw is caught and undefined is returned.
PullPoolParameters(c) ==
    /\ calls[c].pc = "fetched"
    /\ LET found == pullParameters(schemas[builders[BuilderOf(c)].definition],
                                   calls[c].datum)
       IN  calls' = [calls EXCEPT
                ![c].pc = "done",
                ![c].pool = IF found.ok
                            THEN PoolFromParameters(calls[c].utxo, found.parameters)
                            ELSE UndefinedPool]
    /\ UNCHANGED <<sequential, schemas, builders>>

\* The caller takes the outcome of a call that has ended.
TakeOutcome(c) ==
    /\ calls[c].pc = "done"
    /\ calls' = [calls EXCEPT ![c] = IdleCall]
    /\ UNCHANGED <<sequential, schemas, builders>>

NextConcurrent ==
    \E c \in Callers :
        \/ StartBuildSwapOrder(c)
        \/ PushOrderParameters(c)
        \/ ReturnOrderPayments(c)
        \/ StartLiquidityPoolFromUtxo(c)
        \/ DatumValue(c)
        \/ PullPoolParameters(c)
        \/ TakeOutcome(c)

SpecConcurrent == Init /\ [][NextConcurrent]_vars

(***************************************************************************)
(* Properties of the swap arithmetic.                                      *)
(***************************************************************************)
Done(name) == pc = "returned" /\ op = name

\* The reserve of the token named in the call, and of the pool's other token.
ReserveOfToken == IF swapToken = liquidityPool.assetA
                  THEN liquidityPool.reserveA ELSE liquidityPool.reserveB
ReserveOfOther == IF swapToken = liquidityPool.assetA
                  THEN liquidityPool.reserveB ELSE liquidityPool.reserveA
\* 10000 - feeBps of the pool of the call.
FeeFactor == 10000 - FeeBps(liquidityPool)

\* C1: the amount estimatedGive returns for a wanted amount X, 0 <= X < reserveOut,
\* is enough: estimatedReceive of that amount, on the pool's opposite token,
\* returns at least X.
C1_GiveIsSufficient ==
    (/\ Done("estimatedGive")
     /\ result.kind = "ok"
     /\ swapAmount < ReserveOfToken)
    => LET back == estimatedReceive(liquidityPool,
                                    OtherToken(liquidityPool, swapToken), result.value)
       IN  back.kind = "ok" /\ back.value >= swapAmount

C1_Witness ==
    /\ Done("estimatedGive")
    /\ result.kind = "ok"
    /\ swapAmount >= 2
    /\ swapAmount < ReserveOfToken
    /\ ReserveOfOther >= 1
    /\ result.value >= 2
    /\ estimatedReceive(liquidityPool, OtherToken(liquidityPool, swapToken),
                        result.value).value >= swapAmount

\* C2: estimatedGive returns no amount when the wanted amount is at least the
\* reserve of the wanted token.
C2_GiveFailsBeyondReserve ==
    (Done("estimatedGive") /\ swapAmount >= ReserveOfToken) => result.kind = "throw"

C4_GiveIsFormulaEverywhere ==
    (Done("estimatedGive") /\ swapAmount < ReserveOfToken)
    => /\ result.kind = "ok"
       /\ result.value = ((swapAmount * ReserveOfOther * 10000)
                            \div ((ReserveOfToken - swapAmount) * FeeFactor)) + 1

\* C4 as amended: estimatedGive of the first definition of the class returns
\* that amount for every wanted amount from 0 to below the reserve.
C4_GiveIsFormula ==
    (Done("estimatedGive") /\ classDef = 1 /\ swapAmount < ReserveOfToken)
    => /\ result.kind = "ok"
       /\ result.value = ((swapAmount * ReserveOfOther * 10000)
                            \div ((ReserveOfToken - swapAmount) * FeeFactor)) + 1

C4_Witness ==
    /\ Done("estimatedGive")
    /\ classDef = 1
    /\ swapAmount >= 1
    /\ swapAmount < ReserveOfToken
    /\ ReserveOfOther >= 1
    /\ result.kind = "ok"
    /\ result.value >= 3

\* C5: estimatedReceive of amount 0 returns 0, whatever the reserves and the fee.
\* (Stated of the first definition of the class, the one that computes.)
C5_ReceiveOfZeroIsZero ==
    (Done("estimatedReceive") /\ classDef = 1 /\ swapAmount = 0) => result = Returned(0)

\* C6: the amount estimatedReceive returns is at most the reserve paid from,
\* and leaves the fee-adjusted product of the reserves no smaller:
\* (reserveIn * 10000 + amountIn * (10000 - feeBps)) * (reserveOut - out)
\*     >= reserveIn * 10000 * reserveOut.
C6_ReceiveKeepsProduct ==
    (Done("estimatedReceive") /\ result.kind = "ok")
    => /\ result.value <= ReserveOfOther
       /\ (ReserveOfToken * 10000 + swapAmount * FeeFactor)
                * (ReserveOfOther - result.value)
            >= ReserveOfToken * 10000 * ReserveOfOther

C6_Witness ==
    /\ Done("estimatedReceive")
    /\ result.kind = "ok"
    /\ result.value >= 1
    /\ ReserveOfToken >= 1
    /\ (ReserveOfToken * 10000 + swapAmount * FeeFactor)
            * (ReserveOfOther - result.value)
         > ReserveOfToken * 10000 * ReserveOfOther

\* C7: estimatedReceive does not decrease when the amount grows and does not
\* increase when the fee grows, reserves kept.
C7_ReceiveIsMonotonic ==
    (Done("estimatedReceive") /\ result.kind = "ok")
    => /\ \A more \in Amounts :
            LET r == estimatedReceive(liquidityPool, swapToken, more)
            IN  (more >= swapAmount /\ r.kind = "ok") => r.value >= result.value
       /\ \A fee \in FeePercents :
            LET dearer == [liquidityPool EXCEPT !.poolFeePercent = fee]
                r == estimatedReceive(dearer, swapToken, swapAmount)
            IN  (FeeBps(dearer) >= FeeBps(liquidityPool) /\ r.kind = "ok")
                    => r.value <= result.value

C7_Witness ==
    /\ Done("estimatedReceive")
    /\ result.kind = "ok"
    /\ \E more \in Amounts :
        /\ more > swapAmount
        /\ estimatedReceive(liquidityPool, swapToken, more).value > result.value
    /\ \E fee \in FeePercents :
        LET dearer == [liquidityPool EXCEPT !.poolFeePercent = fee]
        IN  /\ FeeBps(dearer) > FeeBps(liquidityPool)
            /\ estimatedReceive(dearer, swapToken, swapAmount).kind = "ok"
            /\ estimatedReceive(dearer, swapToken, swapAmount).value < result.value

RECURSIVE Gcd(_, _)
Gcd(a, b) == IF b = 0 THEN a ELSE Gcd(b, a % b)

\* n1 / d1 and n2 / d2 are the same number (d1, d2 > 0).
SameQuotient(n1, d1, n2, d2) ==
    LET g1 == Gcd(Abs(n1), d1)
        g2 == Gcd(Abs(n2), d2)
    IN  /\ n1 \div g1 = n2 \div g2
        /\ d1 \div g1 = d2 \div g2

\* The deviation of the price paid, (swapOutNumerator / swapOutDenominator) per
\* amountIn, from the spot price reserveOut / reserveIn less the fee, as a
\* part of the spot price; numerator and denominator of that quotient, over
\* the two integers whose quotient estimatedReceive returns.
DeviationNumerator ==
    FeeFactor * swapOutDenominator(liquidityPool, swapToken, swapAmount)
              * swapAmount * ReserveOfOther
    - 10000 * swapOutNumerator(liquidityPool, swapToken, swapAmount) * ReserveOfToken
DeviationDenominator ==
    10000 * swapOutDenominator(liquidityPool, swapToken, swapAmount)
          * swapAmount * ReserveOfOther

C22_LimitOrderEstimatesThrow ==
    (classDef = 2 /\ (Done("estimatedGive") \/ Done("estimatedReceive")))
    => /\ result.kind = "throw"
       /\ result.error = LimitOrderDexError

C22_Witness ==
    /\ classDef = 2
    /\ Done("estimatedReceive")
    /\ swapAmount = 2
    /\ liquidityPool.reserveA > 0
    /\ liquidityPool.reserveB > 0
    /\ result.kind = "throw"

(***************************************************************************)
(* Properties of the order payloads.                                       *)
(***************************************************************************)
RECURSIVE TotalQuantity(_)
TotalQuantity(balances) ==
    IF balances = <<>> THEN 0
    ELSE Head(balances).quantity + TotalQuantity(Tail(balances))

\* The order definition of the class definition in use.
OrderDefinitionInUse == IF classDef = 1 THEN order1 ELSE orderDefinition

\* C9: the payment buildSwapOrder resolves with is made to the order address,
\* carries quantities adding up to the deposit plus the amount sold, and
\* carries the datum got by pushing the parameters (with the deposit) through
\* the order definition.
C9_OrderPaysDepositPlusSellAmount ==
    (Done("buildSwapOrder") /\ result.kind = "ok")
    => /\ Len(payments) = 1
       /\ payments[1].address = orderAddress
       /\ payments[1].addressType = "Contract"
       /\ TotalQuantity(payments[1].assetBalances)
            = depositValue + ParamN(swapParameters, "SwapInAmount")
       /\ payments[1].datum
            = getCbor(pushParameters(OrderDefinitionInUse,
                    ("DepositFee" :> IntV(depositValue)) @@ swapParameters))

C9_Witness ==
    /\ Done("buildSwapOrder")
    /\ result.kind = "ok"
    /\ classDef = 2
    /\ ParamN(swapParameters, "SwapInAmount") >= 2
    /\ ParamS(swapParameters, "SwapInTokenPolicyId") = "p1"
    /\ Len(payments) = 1
    /\ TotalQuantity(payments[1].assetBalances) = depositValue + 2
    /\ Len(payments[1].datum) > 9

NoOutputAtOrderAddress ==
    \A i \in 1..Len(txOutputs) : txOutputs[i].address # orderAddress

\* C10: when no output given to buildCancelSwapOrder is at the order address
\* the call is rejected as order-not-found and carries no payment, and the
\* call assigns neither the outputs nor the return address.
C10_CancelWithoutOrderFails ==
    /\ []((Done("buildCancelSwapOrder") /\ NoOutputAtOrderAddress)
            => (result = Rejected(OrderNotFound) /\ payments = <<>>))
    /\ [][(pc = "called" /\ op = "buildCancelSwapOrder" /\ NoOutputAtOrderAddress)
            => (txOutputs' = txOutputs /\ returnAddress' = returnAddress)]_vars

C10_Witness ==
    /\ Done("buildCancelSwapOrder")
    /\ Len(txOutputs) = 2
    /\ NoOutputAtOrderAddress
    /\ result = Rejected(OrderNotFound)
    /\ payments = <<>>

\* C11: when some output given to buildCancelSwapOrder is at the order address,
\* the call resolves with one payment that spends such an output with the
\* cancel datum and the order script of the class, and pays that output's
\* asset balances to the return address.
C11_CancelSpendsOrderOutput ==
    (Done("buildCancelSwapOrder") /\ ~NoOutputAtOrderAddress)
    => /\ result = Resolved
       /\ Len(payments) = 1
       /\ payments[1].address = returnAddress
       /\ Len(payments[1].spendUtxos) = 1
       /\ payments[1].spendUtxos[1].redeemer = cancelDatum
       /\ payments[1].spendUtxos[1].validator = orderScript
       /\ \E i \in 1..Len(txOutputs) :
            /\ txOutputs[i].address = orderAddress
            /\ payments[1].spendUtxos[1].utxo = txOutputs[i]
            /\ payments[1].assetBalances = txOutputs[i].assetBalances

C11_Witness ==
    /\ Done("buildCancelSwapOrder")
    /\ Len(txOutputs) = 2
    /\ txOutputs[1].address # orderAddress
    /\ txOutputs[2].address = orderAddress
    /\ Len(txOutputs[2].assetBalances) = 2
    /\ result = Resolved
    /\ payments[1].assetBalances = txOutputs[2].assetBalances
    /\ payments[1].address = returnAddress

\* C12: when swapOrderFees() has no entry with id 'deposit', buildSwapOrder is
\* rejected as deposit-not-configured and carries no payment; the rejection
\* comes before the datum is built (a parameter the definition needs may be
\* absent: the rejection is still the deposit's).
C12_NoDepositNoOrder ==
    (Done("buildSwapOrder") /\ \A i \in 1..Len(feeSchedule) : feeSchedule[i].id # "deposit")
    => /\ result = Rejected(DepositNotConfigured)
       /\ payments = <<>>

C12_Witness ==
    /\ Done("buildSwapOrder")
    /\ classDef = 2
    /\ feeSchedule = <<>>
    /\ "MinReceive" \notin DOMAIN swapParameters
    /\ ParamN(swapParameters, "SwapInAmount") = 2
    /\ result = Rejected(DepositNotConfigured)
    /\ payments = <<>>

\* The datum tree of the order buildSwapOrder resolved with.
OrderDatum ==
    pushParameters(OrderDefinitionInUse,
                   ("DepositFee" :> IntV(depositValue)) @@ swapParameters)

\* The token the order datum names as the one sold: fields 2 and 3 of the
\* SwapDatum (orderDefinition), the two fields of the third constructor of the
\* first definition's order.
DatumSellToken ==
    LET policy == IF classDef = 1 THEN OrderDatum.fields[3].fields[1].value.s
                  ELSE OrderDatum.fields[2].value.s
        name == IF classDef = 1 THEN OrderDatum.fields[3].fields[2].value.s
                ELSE OrderDatum.fields[3].value.s
    IN  IF policy = "" THEN Lovelace ELSE Asset(policy, name)

\* The amount the order datum names as sold: field 4 in both definitions.
DatumSellAmount == OrderDatum.fields[4].value.n

\* C23: in the payment buildSwapOrder resolves with, a quantity of the token
\* the order datum names as sold is attached and is at least the amount the
\* datum names as sold, and nothing but that token and lovelace is attached.
C23_AttachedTokenIsDatumSellToken ==
    (Done("buildSwapOrder") /\ result = Resolved)
    => /\ \E i \in 1..Len(payments[1].assetBalances) :
            /\ payments[1].assetBalances[i].asset = DatumSellToken
            /\ payments[1].assetBalances[i].quantity >= DatumSellAmount
       /\ \A i \in 1..Len(payments[1].assetBalances) :
            payments[1].assetBalances[i].asset \in {DatumSellToken, Lovelace}

\* C26: buildSwapOrder assigns nothing to the caller's swapParameters object
\* and spendUtxos list, and the DepositFee of the table it pushes is the
\* deposit configured, whatever DepositFee the caller's table holds; the
\* first definition's datum carries that value as its last field.
C26_OrderLeavesArgumentsAlone ==
    /\ [][(pc = "called" /\ op = "buildSwapOrder")
            => (swapParameters' = swapParameters /\ spendUtxos' = spendUtxos)]_vars
    /\ []((Done("buildSwapOrder") /\ result = Resolved)
            => /\ datumParameters["DepositFee"] = IntV(Head(DepositFees).value)
               /\ classDef = 1 => datumValue.fields[6].value.n = Head(DepositFees).value
               /\ payments[1].datum = getCbor(datumValue)
               /\ payments[1].spendUtxos = spendUtxos)

C26_Witness ==
    /\ Done("buildSwapOrder")
    /\ result = Resolved
    /\ ParamN(swapParameters, "DepositFee") = 7
    /\ datumParameters["DepositFee"] = IntV(depositValue)
    /\ spendUtxos # <<>>
    /\ payments[1].spendUtxos = spendUtxos

\* The first output at the order address among those given to
\* buildCancelSwapOrder (0: none).
FirstAtOrderAddress == FindAt(txOutputs, orderAddress)

\* C21 as stated: whenever the order output placed from buildSwapOrder's
\* payment is among the outputs given to buildCancelSwapOrder, the call pays
\* that output's asset balances to the return address, and the output a
\* cancel payload spends is at the order address.
C21_CancelReturnsThePlacedValue ==
    Done("buildCancelSwapOrder")
    => /\ \A i \in 1..Len(txOutputs) :
            txOutputs[i] \in Range(placed)
            => /\ result = Resolved
               /\ payments[1].address = returnAddress
               /\ payments[1].assetBalances = txOutputs[i].assetBalances
       /\ result = Resolved
            => \A k \in 1..Len(payments[1].spendUtxos) :
                    payments[1].spendUtxos[k].utxo.address = orderAddress

\* C21: when the order output placed from buildSwapOrder's payment is the
\* first output at the order address among those given to
\* buildCancelSwapOrder, the call pays that output's asset balances, the
\* deposit included, to the return address; and the output a cancel payload
\* spends is always at the order address.
C21_CancelReturnsTheFirstPlacedValue ==
    Done("buildCancelSwapOrder")
    => /\ (FirstAtOrderAddress # 0 /\ txOutputs[FirstAtOrderAddress] \in Range(placed))
            => /\ result = Resolved
               /\ payments[1].address = returnAddress
               /\ payments[1].assetBalances = placed[1].assetBalances
               /\ TotalQuantity(payments[1].assetBalances) >= depositValue
       /\ result = Resolved
            => \A k \in 1..Len(payments[1].spendUtxos) :
                    payments[1].spendUtxos[k].utxo.address = orderAddress

C21_Witness ==
    /\ Done("buildCancelSwapOrder")
    /\ Len(txOutputs) = 2
    /\ txOutputs[1].address # orderAddress
    /\ txOutputs[2] \in Range(placed)
    /\ TotalQuantity(placed[1].assetBalances) = depositValue + 2
    /\ result = Resolved
    /\ payments[1].address = returnAddress
    /\ payments[1].assetBalances = placed[1].assetBalances

\* More than one of the outputs given to buildCancelSwapOrder is at the order
\* address.
SeveralAtOrderAddress ==
    \E i, j \in 1..Len(txOutputs) :
        /\ i # j
        /\ txOutputs[i].address = orderAddress
        /\ txOutputs[j].address = orderAddress

\* C25: when several of the outputs given to buildCancelSwapOrder are at the
\* order address, the call resolves with one payment, which spends one
\* output, the first in the list that is at the order address, and pays that
\* output's asset balances; the call assigns nothing to the list of outputs.
C25_CancelTakesTheFirstOrderOutput ==
    /\ []((Done("buildCancelSwapOrder") /\ SeveralAtOrderAddress)
            => /\ result = Resolved
               /\ Len(payments) = 1
               /\ Len(payments[1].spendUtxos) = 1
               /\ \E i \in 1..Len(txOutputs) :
                    /\ txOutputs[i].address = orderAddress
                    /\ \A j \in 1..(i - 1) : txOutputs[j].address # orderAddress
                    /\ payments[1].spendUtxos[1].utxo = txOutputs[i]
                    /\ payments[1].assetBalances = txOutputs[i].assetBalances)
    /\ [][(pc = "called" /\ op = "buildCancelSwapOrder" /\ SeveralAtOrderAddress)
            => txOutputs' = txOutputs]_vars

C25_Witness ==
    /\ Done("buildCancelSwapOrder")
    /\ Len(txOutputs) = 2
    /\ txOutputs[1].address = orderAddress
    /\ txOutputs[2].address = orderAddress
    /\ txOutputs[1].assetBalances # txOutputs[2].assetBalances
    /\ result = Resolved
    /\ payments[1].spendUtxos[1].utxo = txOutputs[1]
    /\ payments[1].assetBalances = txOutputs[1].assetBalances

(***************************************************************************)
(* Properties of the datum codec.                                          *)
(***************************************************************************)
\* The table has a value for exactly the keys of the definition.
ValidFor(schema, params) == DOMAIN params = DefinitionKeys(schema)

\* pullParameters was given the datum pushParameters built from datumParameters.
PulledWhatWasPushed ==
    /\ Done("pullParameters")
    /\ datumParameters # NoParameters

\* C13: for every definition and every parameter table valid for it, pulling
\* the datum that push built from the table returns the table.
C13_PullOfPushIsTheTable ==
    (PulledWhatWasPushed /\ ValidFor(loadedDefinition, datumParameters))
    => /\ result.kind = "ok"
       /\ pulled = datumParameters

C13_Witness ==
    /\ PulledWhatWasPushed
    /\ loadedDefinition = poolDefinition
    /\ ValidFor(loadedDefinition, datumParameters)
    /\ datumParameters["LpFee"] = IntV(10 * KeyNumber("LpFee") + 2)
    /\ result.kind = "ok"
    /\ pulled = datumParameters

\* C14: pull accepts only the datums push can build for the definition:
\* pushing what pull returned gives the datum pulled.
C14_PushOfPullIsTheDatum ==
    (Done("pullParameters") /\ result.kind = "ok")
    => pushParameters(loadedDefinition, pulled) = datumValue

\* C15: decoding a datum whose constructor index or number of fields is not
\* the definition's fails with SchemaMismatch: the decode functions and pull
\* return nothing for it, null included.
C15_MismatchIsRaised ==
    /\ (Done("decodeSwapDatum") /\ datumValue.kind = "constr"
            /\ (datumValue.tag # 0 \/ Len(datumValue.fields) # 9))
        => result = Threw(SchemaMismatch)
    /\ (Done("decodeControlDatum") /\ datumValue.kind = "constr"
            /\ (datumValue.tag # 2 \/ Len(datumValue.fields) # 11))
        => result = Threw(SchemaMismatch)
    /\ (Done("pullParameters") /\ datumValue.kind = "constr"
            /\ loadedDefinition.key = ""
            /\ (datumValue.tag # loadedDefinition.tag
                    \/ Len(datumValue.fields) # Len(loadedDefinition.fields)))
        => result = Threw(SchemaMismatch)

\* The keys of the leaves of a definition, in the order of the leaves.
RECURSIVE LeafKeys(_)
LeafKeys(node) ==
    IF node.kind = "constr"
    THEN Concat([i \in 1..Len(node.fields) |-> LeafKeys(node.fields[i])])
    ELSE << node.key >>

\* C16: no key is referred to by two leaves of one definition.
C16_KeysAreDistinct ==
    (pc # "idle" /\ op \in {"pushParameters", "pullParameters"})
    => LET keys == LeafKeys(loadedDefinition)
       IN  \A i, j \in 1..Len(keys) : i # j => keys[i] # keys[j]

\* C17: the datum of an order carries the expiry as an optional field: a
\* constructor without children when no expiry is given, a constructor
\* wrapping exactly the expiry when one is given.
C17_ExpiryIsEncoded ==
    (Done("buildSwapOrder") /\ classDef = 2 /\ result.kind = "ok")
    => LET cbor == payments[1].datum
       IN  IF Truthy(swapParameters, "Expiration")
           THEN \E i \in 1..(Len(cbor) - 1) :
                    /\ cbor[i].t = "constr"
                    /\ cbor[i].arity = 1
                    /\ cbor[i + 1].t = "int"
                    /\ cbor[i + 1].n = ParamN(swapParameters, "Expiration")
           ELSE \E i \in 1..Len(cbor) : cbor[i].t = "constr" /\ cbor[i].arity = 0

\* A key the order definition refers to, other than the deposit the method
\* adds itself, is absent from the caller's parameters.
RequiredKeyAbsent ==
    \E key \in DefinitionKeys(OrderDefinitionInUse) \ {"DepositFee"} :
        ~Present(swapParameters, key)

\* C18: push fails with MissingParameter when a key of the definition is absent
\* from the table; buildSwapOrder without a key the order definition needs is
\* rejected with that failure and carries no payment.
C18_MissingKeyNoOrder ==
    /\ (Done("pushParameters") /\ MissingParameter(loadedDefinition, datumParameters))
        => result = Threw(MissingParameterError)
    /\ (Done("buildSwapOrder") /\ DepositFees # <<>> /\ RequiredKeyAbsent)
        => (result = Rejected(MissingParameterError) /\ payments = <<>>)

C18_Witness ==
    /\ Done("buildSwapOrder")
    /\ classDef = 2
    /\ DepositFees # <<>>
    /\ "MinReceive" \notin DOMAIN swapParameters
    /\ ParamN(swapParameters, "SwapInAmount") = 2
    /\ result = Rejected(MissingParameterError)
    /\ payments = <<>>

\* What a concurrent call that has ended returns when it is the only call.
AloneOutcome(c) ==
    IF calls[c].op = "buildSwapOrder"
    THEN [payments |-> (IF classDef = 1
                        THEN buildSwapOrder(calls[c].parameters, calls[c].spend)
                        ELSE buildSwapOrder2(calls[c].parameters, calls[c].spend)),
          pool |-> UndefinedPool]
    ELSE [payments |-> Outcome(NoResult, <<>>),
          pool |-> liquidityPoolFromUtxo(calls[c].utxo, calls[c].datum)]

\* C19: however the concurrent calls of buildSwapOrder and
\* liquidityPoolFromUtxo interleave, the definitions order and pool stay as
\* loaded, and each call ends as it ends when it is the only call.
C19_SharedSchemaIsSafe ==
    /\ schemas = LoadedSchemas
    /\ \A c \in Callers :
        calls[c].pc = "done"
        => /\ Outcome(calls[c].result, calls[c].payments) = AloneOutcome(c).payments
           /\ calls[c].pool = AloneOutcome(c).pool

C19_Witness ==
    /\ calls[1].pc = "done"
    /\ calls[1].op = "buildSwapOrder"
    /\ calls[1].result = Resolved
    /\ Len(calls[1].payments) = 1
    /\ calls[2].pc = "fetched"
    /\ calls[2].op = "liquidityPoolFromUtxo"
    /\ builders[1].datum # NoDatumTree
    /\ builders[2].definition = "pool"

\* The datum given to the decoder was pushed through the order definition of
\* the SwapDatum from a table with every key of the definition.
PushedThroughOrderDefinition ==
    /\ loadedDefinition = orderDefinition
    /\ ValidFor(orderDefinition, datumParameters)

\* C24: a datum pushed through the order definition is a SwapDatum for the
\* decoder: isSwapDatum answers true, and decodeSwapDatum returns an order
\* (not null) whose sell amount, buy amount and output reference are the
\* values pushed and whose expiry is none, as none was given.
C24_PushedOrderDecodes ==
    /\ (Done("isSwapDatum") /\ PushedThroughOrderDefinition) => result = Returned(1)
    /\ (Done("decodeSwapDatum") /\ PushedThroughOrderDefinition)
        => /\ decoded # Null
           /\ decoded.sellToken.amount = datumParameters["SwapInAmount"].n
           /\ decoded.buyToken.amount = datumParameters["MinReceive"].n
           /\ decoded.expiry.null
           /\ decoded.outputReference
                = ConstrDatum(0, << BytesLeaf(datumParameters["PoolIdentifier"].s),
                                    IntLeaf(datumParameters["BatcherFee"].n) >>)

(***************************************************************************)
(* Properties of the numbers used.                                         *)
(***************************************************************************)
\* C20: the fee modifier, the reserves and the amounts are computed with
\* integers only: the fee modifier of a call is 10000 less the pool's fee in
\* basis points, rounded from its exact value, and floating point has no
\* part in the amount returned.
C20_FeeModifierIsExact ==
    (/\ pc = "returned"
     /\ op \in {"estimatedGive", "estimatedReceive", "priceImpactPercent"}
     /\ classDef = 1)
    => poolFeeModifier(liquidityPool)
        = poolFeeMultiplier - MathRound10(liquidityPool.poolFeePercent)

====
